---- MODULE Spec2Model ----
(***************************************************************************)
(* Model of src/core/process.js: the process supervisor (createProcess,    *)
(* handleExecFileResult) and the resource monitor (startProcessesMonitoring,*)
(* pidUsageCallback) sharing the registry PROCESSES.                       *)
(*                                                                         *)
(* Node runs every handler to completion on one thread, so each handler is *)
(* one atomic action.  A child process is a small state machine driven by  *)
(* the operating system: running -> exited -> closed (exit code or signal, *)
(* then the 'close' event), or failed -> errored -> closedAfterError (a    *)
(* launch failure: the 'error' event on the next tick of the event loop,   *)
(* then possibly a 'close' event for the same child).                      *)
(*                                                                         *)
(* stdout/stderr buffers and console output are left out: no handler       *)
(* branches on them.                                                       *)
(***************************************************************************)
EXTENDS Integers, Sequences, FiniteSets, TLC

\* ---------------------------------------------------------------- bounds
NumEngines == 2      \* engines run side by side
QueueLen == 2        \* scripts queued for engine 1 (every other engine: one)
SoloQueueLen == 3    \* scripts queued for the only engine of SpecSolo
MaxTime == 1000      \* the clock stops here
Step == 250          \* granularity of the clock

\* ------------------------------------------------------ program constants
INTERVAL == 500      \* startProcessesMonitoring(TIMEOUT, INTERVAL = 500)
TIMEOUT == 750       \* startProcessesMonitoring's first parameter
NegInfinity == -1000000   \* Math.max.apply(null, []) is -Infinity
PosInfinity == 1000000    \* Math.min.apply(null, []) is Infinity

\* No run spawns more processes than this: a spawn takes a script off a queue.
MaxPid == IF QueueLen + NumEngines - 1 > SoloQueueLen
          THEN QueueLen + NumEngines - 1 ELSE SoloQueueLen

\* What the launcher can do with a spawn.
Launches == {"ok", "fail"}
\* How a running child can end: exit code 0 with a clean verdict, exit code 0
\* with the verdict predicate reporting failure, exit code 1, or a signal.
Outcomes == {"ok", "dirty", "fail", "signal"}
\* What a resource query can report: a per-process-tree list of readings.
StatsInputs ==
    { << [cpu |-> 1, memory |-> 2] >>,
      << [cpu |-> 1, memory |-> 1], [cpu |-> 1, memory |-> 0] >> }

VARIABLES
    PROCESSES,      \* the registry: a sequence of pids (references to procs)
    procs,          \* every Managed Process object created so far, by pid
    engines,        \* engine -> [testsQueue, testsPassed, testsFailed]
    callbackCalls,  \* engine -> number of engine-completion callback calls
    queries,        \* pid -> resource queries issued and not yet called back
    now,            \* performance.now()
    nextTickAt,     \* when the monitor's interval timer is due next
    started,        \* number of engines whose first script has been spawned
    crashed         \* an exception escaped a handler

vars == << PROCESSES, procs, engines, callbackCalls, queries, now,
           nextTickAt, started, crashed >>

\* ------------------------------------------------------------- utilities
Last(s) == s[Len(s)]
Front(s) == SubSeq(s, 1, Len(s) - 1)
RemoveAt(s, i) == SubSeq(s, 1, i - 1) \o SubSeq(s, i + 1, Len(s))

RECURSIVE MathMax(_)
MathMax(s) ==
    IF s = << >> THEN NegInfinity
    ELSE LET m == MathMax(Front(s)) IN IF Last(s) > m THEN Last(s) ELSE m

RECURSIVE MathMin(_)
MathMin(s) ==
    IF s = << >> THEN PosInfinity
    ELSE LET m == MathMin(Front(s)) IN IF Last(s) < m THEN Last(s) ELSE m

\* ./utils collaborators
checkIfProcessExists(childProcess) == childProcess.state = "running"

checkIfProcessFinishedCorrectly(childProcess) ==
    childProcess.exitCode = "0" /\ childProcess.clean

killProcess(childProcess) == [childProcess EXCEPT !.killed = TRUE]

RECURSIVE SumCpu(_)
SumCpu(stats) ==
    IF stats = << >> THEN 0 ELSE SumCpu(Front(stats)) + Last(stats).cpu

RECURSIVE SumMem(_)
SumMem(stats) ==
    IF stats = << >> THEN 0 ELSE SumMem(Front(stats)) + Last(stats).memory

processPidusageStats(stats) == << SumCpu(stats), SumMem(stats) >>

\* child_process.spawn: the handle as createProcess gets it back
spawn(pid, launch) ==
    [ pid |-> pid,
      state |-> IF launch = "ok" THEN "running" ELSE "failed",
      exitCode |-> "null",
      signalCode |-> "null",
      clean |-> FALSE,
      killed |-> FALSE ]

\* ------------------------------------------------------------ supervisor
\* The state the supervisor's functions read and write, as one value.
Sup(P, pr, en, cb, cr) ==
    [ PROCESSES |-> P, procs |-> pr, engines |-> en, callbackCalls |-> cb,
      crashed |-> cr ]

createProcess(s, engine, script, launch) ==
    LET pid == Len(s.procs) + 1
        process == [ script |-> script,
                     engine |-> engine,
                     childProcess |-> spawn(pid, launch),
                     startTime |-> now,
                     cpuVals |-> << >>,
                     memVals |-> << >>,
                     isTimedOut |-> FALSE ]
    IN [ s EXCEPT !.procs = Append(s.procs, process),
                  !.PROCESSES = Append(s.PROCESSES, pid) ]

\* `error ${exitCode || signalCode}`
ErrorStatus(childProcess) ==
    "error " \o ( IF childProcess.exitCode \in {"null", "0"}
                  THEN childProcess.signalCode
                  ELSE childProcess.exitCode )

\* The record pushed to testsPassed or testsFailed.  cpus and mems are the
\* popped process's own arrays (the same objects, not copies): the record
\* keeps the pid and reads them through it.
Stats(pid, process) ==
    [ proc |-> pid,
      maxCPU |-> MathMax(process.cpuVals),
      minCPU |-> MathMin(process.cpuVals),
      maxMem |-> MathMax(process.memVals),
      minMem |-> MathMin(process.memVals) ]

TestResult(script, status, pid, process) ==
    [ script |-> script,
      status |-> status,
      extime |-> now - process.startTime,
      stats |-> Stats(pid, process) ]

QueueAdvance(s, engine, launch) ==
    IF s.engines[engine].testsQueue = << >>
    THEN [ s EXCEPT !.callbackCalls[engine] = @ + 1 ]
    ELSE LET script == Last(s.engines[engine].testsQueue)
             popped == [ s EXCEPT !.engines[engine].testsQueue = Front(@) ]
         IN createProcess(popped, engine, script, launch)

handleExecFileResult(s, engine, script, err, launch) ==
    IF s.PROCESSES = << >>
    THEN \* PROCESSES.pop() is undefined: process.cpuVals throws a TypeError
         [ s EXCEPT !.crashed = TRUE ]
    ELSE LET pid == Last(s.PROCESSES)
             process == s.procs[pid]
             s1 == [ s EXCEPT !.PROCESSES = Front(@) ]
             s2 == IF ~err /\ checkIfProcessFinishedCorrectly(process.childProcess)
                   THEN [ s1 EXCEPT !.engines[engine].testsPassed =
                            Append(@, TestResult(script, "success", pid, process)) ]
                   ELSE [ s1 EXCEPT !.engines[engine].testsFailed =
                            Append(@, TestResult(script,
                                IF process.isTimedOut THEN "timeout"
                                ELSE ErrorStatus(process.childProcess),
                                pid, process)) ]
         IN QueueAdvance(s2, engine, launch)

Current == Sup(PROCESSES, procs, engines, callbackCalls, crashed)

Install(s) ==
    /\ PROCESSES' = s.PROCESSES
    /\ procs' = s.procs
    /\ engines' = s.engines
    /\ callbackCalls' = s.callbackCalls
    /\ crashed' = s.crashed

\* A launch failure emits 'error' on the next tick of the event loop, before
\* any timer or I/O callback runs.
NextTickPending ==
    \E pid \in 1..Len(procs) : procs[pid].childProcess.state = "failed"

Engines == DOMAIN engines

Running == started = Cardinality(Engines) /\ ~crashed

\* ----------------------------------------------------------------- Init
\* The harness enqueues scripts 1, 2, ..., n in this order, each at the end
\* of the array: script i is at index i and script 1 is the head.
InitialQueue(n) == [ i \in 1..n |-> i ]

\* queueLens[e] scripts wait in engine e's testsQueue.
InitWith(queueLens) ==
    /\ PROCESSES = << >>
    /\ procs = << >>
    /\ engines = [ e \in DOMAIN queueLens |->
                    [ testsQueue |-> InitialQueue(queueLens[e]),
                      testsPassed |-> << >>,
                      testsFailed |-> << >> ] ]
    /\ callbackCalls = [ e \in DOMAIN queueLens |-> 0 ]
    /\ queries = [ pid \in 1..MaxPid |-> 0 ]
    /\ now = 0
    /\ nextTickAt = INTERVAL
    /\ started = 0
    /\ crashed = FALSE

Init == InitWith([ e \in 1..NumEngines |-> IF e = 1 THEN QueueLen ELSE 1 ])

InitSolo == InitWith(<< SoloQueueLen >>)

\* --------------------------------------------------------------- actions
\* The harness starts every engine's first script, one after the other,
\* before it returns to the event loop.
StartEngine ==
    /\ started < Cardinality(Engines)
    /\ ~crashed
    /\ \E launch \in Launches :
         LET engine == started + 1
             script == Last(engines[engine].testsQueue)
             popped == [ Current EXCEPT !.engines[engine].testsQueue = Front(@) ]
         IN Install(createProcess(popped, engine, script, launch))
    /\ started' = started + 1
    /\ UNCHANGED << queries, now, nextTickAt >>

\* The operating system ends a running child; Node sets exitCode/signalCode.
Exit(pid) ==
    /\ Running /\ ~NextTickPending
    /\ procs[pid].childProcess.state = "running"
    /\ \E outcome \in Outcomes :
         /\ outcome = "signal" => procs[pid].childProcess.killed
         /\ procs' = [ procs EXCEPT ![pid].childProcess =
              [ @ EXCEPT !.state = "exited",
                         !.exitCode = CASE outcome \in {"ok", "dirty"} -> "0"
                                        [] outcome = "fail" -> "1"
                                        [] OTHER -> "null",
                         !.signalCode = IF outcome = "signal" THEN "SIGTERM"
                                        ELSE "null",
                         !.clean = (outcome = "ok") ] ]
    /\ UNCHANGED << PROCESSES, engines, callbackCalls, queries, now,
                    nextTickAt, started, crashed >>

\* childProcess.on('close', (code, signal) => ...) of an exited child
Close(pid) ==
    /\ Running /\ ~NextTickPending
    /\ procs[pid].childProcess.state = "exited"
    /\ \E launch \in Launches :
         LET code == procs[pid].childProcess.exitCode
             s == [ Current EXCEPT !.procs[pid].childProcess.state = "closed" ]
         IN Install(handleExecFileResult(s, procs[pid].engine,
                        procs[pid].script, code # "0", launch))
    /\ UNCHANGED << queries, now, nextTickAt, started >>

\* childProcess.on('error', (err) => ...) of a child that failed to launch;
\* the next-tick queue is first in, first out
Error(pid) ==
    /\ Running
    /\ procs[pid].childProcess.state = "failed"
    /\ \A q \in 1..(pid - 1) : procs[q].childProcess.state # "failed"
    /\ \E launch \in Launches :
         LET s == [ Current EXCEPT
                      !.procs[pid].childProcess.state = "errored",
                      !.procs[pid].childProcess.exitCode = "-2" ]
         IN Install(handleExecFileResult(s, procs[pid].engine,
                        procs[pid].script, TRUE, launch))
    /\ UNCHANGED << queries, now, nextTickAt, started >>

\* the 'close' event Node emits after the 'error' event of a failed launch
CloseAfterError(pid) ==
    /\ Running /\ ~NextTickPending
    /\ procs[pid].childProcess.state = "errored"
    /\ \E launch \in Launches :
         LET code == procs[pid].childProcess.exitCode
             s == [ Current EXCEPT
                      !.procs[pid].childProcess.state = "closedAfterError" ]
         IN Install(handleExecFileResult(s, procs[pid].engine,
                        procs[pid].script, code # "0", launch))
    /\ UNCHANGED << queries, now, nextTickAt, started >>

\* ---------------------------------------------------------------- monitor
\* One firing of the setInterval callback of startProcessesMonitoring.
InRegistry(pid) == \E i \in 1..Len(PROCESSES) : PROCESSES[i] = pid

\* Mutant of TickQueries: the sampling branch forgets the timeout check.
TickQueriesIgnoringTimeout(pid) ==
    /\ InRegistry(pid)
    /\ checkIfProcessExists(procs[pid].childProcess)

TickQueries(pid) ==
    /\ InRegistry(pid)
    /\ checkIfProcessExists(procs[pid].childProcess)
    /\ now - procs[pid].startTime < TIMEOUT

\* Mutant of TickKills: the timeout branch is not behind the liveness check.
TickKillsWithoutLiveness(pid) ==
    /\ InRegistry(pid)
    /\ ~(now - procs[pid].startTime < TIMEOUT)

TickKills(pid) ==
    /\ InRegistry(pid)
    /\ checkIfProcessExists(procs[pid].childProcess)
    /\ ~(now - procs[pid].startTime < TIMEOUT)

startProcessesMonitoring ==
    /\ Running /\ ~NextTickPending
    /\ now >= nextTickAt
    /\ nextTickAt' = nextTickAt + INTERVAL
    /\ queries' = [ pid \in 1..MaxPid |->
                      IF pid <= Len(procs) /\ TickQueries(pid)
                      THEN queries[pid] + 1 ELSE queries[pid] ]
    /\ procs' = [ pid \in 1..Len(procs) |->
                    IF TickKills(pid)
                    THEN [ procs[pid] EXCEPT
                             !.childProcess = killProcess(@),
                             !.isTimedOut = TRUE ]
                    ELSE procs[pid] ]
    /\ UNCHANGED << PROCESSES, engines, callbackCalls, now, started, crashed >>

\* PROCESSES.findIndex(cp => cp.childProcess.pid === p.childProcess.pid)
FindIndex(P, pid) ==
    IF \E i \in 1..Len(P) : P[i] = pid
    THEN CHOOSE i \in 1..Len(P) : P[i] = pid /\ \A j \in 1..(i - 1) : P[j] # pid
    ELSE -1

\* PROCESSES.splice(idx, 1): a negative idx counts from the end
Splice(P, idx) ==
    IF P = << >> THEN P
    ELSE IF idx < 0 THEN RemoveAt(P, Len(P) + idx + 1)
    ELSE RemoveAt(P, idx)

\* Mutant of pidUsageCallback: on a query error the monitor itself reports
\* the test as failed.
pidUsageCallbackRecording(pid, err, stats) ==
    /\ Running /\ ~NextTickPending
    /\ queries[pid] > 0
    /\ queries' = [ queries EXCEPT ![pid] = @ - 1 ]
    /\ IF ~checkIfProcessExists(procs[pid].childProcess)
       THEN UNCHANGED << PROCESSES, procs, engines >>
       ELSE IF err
       THEN /\ procs' = [ procs EXCEPT ![pid].childProcess = killProcess(@) ]
            /\ PROCESSES' = Splice(PROCESSES, FindIndex(PROCESSES, pid))
            /\ engines' = [ engines EXCEPT ![procs[pid].engine].testsFailed =
                 Append(@, TestResult(procs[pid].script, "error query", pid,
                                      procs[pid])) ]
       ELSE LET sample == processPidusageStats(stats)
            IN /\ procs' = [ procs EXCEPT
                               ![pid].cpuVals = Append(@, sample[1]),
                               ![pid].memVals = Append(@, sample[2]) ]
               /\ UNCHANGED << PROCESSES, engines >>
    /\ UNCHANGED << callbackCalls, now, nextTickAt, started, crashed >>

pidUsageCallback(pid, err, stats) ==
    /\ Running /\ ~NextTickPending
    /\ queries[pid] > 0
    /\ queries' = [ queries EXCEPT ![pid] = @ - 1 ]
    /\ IF ~checkIfProcessExists(procs[pid].childProcess)
       THEN UNCHANGED << PROCESSES, procs >>
       ELSE IF err
       THEN /\ procs' = [ procs EXCEPT ![pid].childProcess = killProcess(@) ]
            /\ PROCESSES' = Splice(PROCESSES, FindIndex(PROCESSES, pid))
       ELSE LET sample == processPidusageStats(stats)
            IN /\ procs' = [ procs EXCEPT
                               ![pid].cpuVals = Append(@, sample[1]),
                               ![pid].memVals = Append(@, sample[2]) ]
               /\ UNCHANGED PROCESSES
    /\ UNCHANGED << engines, callbackCalls, now, nextTickAt, started, crashed >>

QueryOk(pid) ==
    \E stats \in StatsInputs : pidUsageCallback(pid, FALSE, stats)

QueryError(pid) == pidUsageCallback(pid, TRUE, << >>)

\* performance.now() moves on; a due timer fires before it moves further.
Advance ==
    /\ Running /\ ~NextTickPending
    /\ now < nextTickAt
    /\ now + Step <= MaxTime
    /\ now' = now + Step
    /\ UNCHANGED << PROCESSES, procs, engines, callbackCalls, queries,
                    nextTickAt, started, crashed >>

Next ==
    \/ StartEngine
    \/ \E pid \in 1..Len(procs) : Exit(pid)
    \/ \E pid \in 1..Len(procs) : Close(pid)
    \/ \E pid \in 1..Len(procs) : Error(pid)
    \/ \E pid \in 1..Len(procs) : CloseAfterError(pid)
    \/ startProcessesMonitoring
    \/ \E pid \in 1..Len(procs) : QueryOk(pid)
    \/ \E pid \in 1..Len(procs) : QueryError(pid)
    \/ Advance

Spec == Init /\ [][Next]_vars

SpecSolo == InitSolo /\ [][Next]_vars

\* ------------------------------------------------------------ vocabulary
\* The child of this Managed Process has emitted a terminating event, so
\* handleExecFileResult has been invoked for its script.
Terminated(process) ==
    process.childProcess.state \in {"closed", "errored", "closedAfterError"}

\* The launcher failed to start this child and its 'error' event was delivered.
SpawnFailed(process) ==
    process.childProcess.state \in {"errored", "closedAfterError"}

\* Spawned, and no terminating event delivered yet.
Outstanding(process) == ~Terminated(process)

Pids == 1..Len(procs)

PidsOf(e) == { pid \in Pids : procs[pid].engine = e }

Passed(e, script) ==
    { i \in 1..Len(engines[e].testsPassed) :
        engines[e].testsPassed[i].script = script }

Failed(e, script) ==
    { i \in 1..Len(engines[e].testsFailed) :
        engines[e].testsFailed[i].script = script }

Records(e) == engines[e].testsPassed \o engines[e].testsFailed

\* The arrays a record's stats.cpus and stats.mems refer to.
Cpus(record) == procs[record.stats.proc].cpuVals
Mems(record) == procs[record.stats.proc].memVals

Elems(s) == { s[i] : i \in 1..Len(s) }

\* ---------------------------------------------------------------- claims
\* C1: for each engine, the number of records in testsPassed and testsFailed
\* together equals the number of that engine's scripts whose child process
\* has emitted a terminating event: one record per terminated process,
\* never fewer and never more.
C1_OneRecordPerTerminated ==
    \A e \in Engines :
        Len(engines[e].testsPassed) + Len(engines[e].testsFailed)
            = Cardinality({ pid \in PidsOf(e) : Terminated(procs[pid]) })

\* C2: whenever a step spawns a process for an engine's next script, the
\* completion handler has already been invoked for the script that engine
\* spawned just before it (scripts leave the queue from its end, so the
\* script spawned before script s is script s + 1).
C2_SpawnAfterPreviousHandled ==
    [][ Len(procs') > Len(procs) =>
          LET new == procs'[Len(procs')]
          IN \A pid \in Pids :
               ( procs'[pid].engine = new.engine
                 /\ procs'[pid].script = new.script + 1 )
               => Terminated(procs'[pid]) ]_vars

\* C3: the engine-completion callback is invoked at most once per engine,
\* and only when the engine's queue is empty and every one of its scripts
\* has been spawned and has produced a record.
C3_CallbackOnceWhenAllRecorded ==
    \A e \in Engines :
        /\ callbackCalls[e] <= 1
        /\ callbackCalls[e] >= 1 =>
             /\ engines[e].testsQueue = << >>
             /\ \A pid \in PidsOf(e) :
                    Passed(e, procs[pid].script) \cup Failed(e, procs[pid].script)
                        # {}

\* C4: a process whose timed-out flag the monitor has set never has a record
\* in testsPassed, and every record for its script is in testsFailed with
\* status "timeout".
C4_TimeoutPrecedence ==
    \A pid \in Pids :
        procs[pid].isTimedOut =>
            LET e == procs[pid].engine
            IN /\ Passed(e, procs[pid].script) = {}
               /\ \A i \in Failed(e, procs[pid].script) :
                      engines[e].testsFailed[i].status = "timeout"

\* C5: the Managed Process a record was built from (whose sample arrays,
\* start time and timed-out flag it carries) is the process of the record's
\* own engine and script.
C5_RecordFromOwnProcess ==
    \A e \in Engines :
        \A i \in 1..Len(Records(e)) :
            LET record == Records(e)[i]
            IN /\ procs[record.stats.proc].engine = e
               /\ procs[record.stats.proc].script = record.script

\* C6: once the 'error' event of a failed launch has been delivered (and
\* whether or not its 'close' event has followed), the script has exactly
\* one record in testsFailed and none in testsPassed, the record's sample
\* sequences are empty, and the engine has advanced exactly one step for
\* it: the engine's spawns and callback calls number one more than the
\* terminating events of its processes.
C6_SpawnErrorOneFailedRecord ==
    \A pid \in Pids :
        SpawnFailed(procs[pid]) =>
            LET e == procs[pid].engine
            IN /\ Cardinality(Failed(e, procs[pid].script)) = 1
               /\ Passed(e, procs[pid].script) = {}
               /\ \A i \in Failed(e, procs[pid].script) :
                      /\ Cpus(engines[e].testsFailed[i]) = << >>
                      /\ Mems(engines[e].testsFailed[i]) = << >>
               /\ Cardinality(PidsOf(e)) + callbackCalls[e]
                    = 1 + Cardinality({ q \in PidsOf(e) : Terminated(procs[q]) })

\* C7: a registered process that keeps running is signalled and flagged at
\* the first monitor tick at or after it crosses TIMEOUT, so it is never
\* found unflagged a whole tick interval past TIMEOUT; and the records of a
\* flagged process are in testsFailed with status "timeout".
C7_BoundedTimeoutResponse ==
    \A pid \in Pids :
        /\ ( InRegistry(pid)
             /\ checkIfProcessExists(procs[pid].childProcess)
             /\ ~procs[pid].isTimedOut )
           => now - procs[pid].startTime < TIMEOUT + INTERVAL
        /\ procs[pid].isTimedOut =>
             /\ procs[pid].childProcess.killed
             /\ Passed(procs[pid].engine, procs[pid].script) = {}
             /\ \A i \in Failed(procs[pid].engine, procs[pid].script) :
                    engines[procs[pid].engine].testsFailed[i].status = "timeout"

\* C8: the completion handler never runs against an empty registry: no
\* exception escapes it.
C8_HandlerNeverThrows == ~crashed

\* C9: in every record, maxCPU/minCPU are the greatest and least element of
\* stats.cpus, maxMem/minMem those of stats.mems, and stats.cpus and
\* stats.mems have the same length.
C9_StatsMatchSamples ==
    \A e \in Engines :
        \A i \in 1..Len(Records(e)) :
            LET record == Records(e)[i]
            IN /\ Len(Cpus(record)) = Len(Mems(record))
               /\ Cpus(record) # << >> =>
                    /\ record.stats.maxCPU \in Elems(Cpus(record))
                    /\ record.stats.minCPU \in Elems(Cpus(record))
                    /\ \A x \in Elems(Cpus(record)) :
                           record.stats.minCPU <= x /\ x <= record.stats.maxCPU
               /\ Mems(record) # << >> =>
                    /\ record.stats.maxMem \in Elems(Mems(record))
                    /\ record.stats.minMem \in Elems(Mems(record))
                    /\ \A x \in Elems(Mems(record)) :
                           record.stats.minMem <= x /\ x <= record.stats.maxMem

\* C10: each engine has at most one spawned child whose terminating event
\* has not been delivered, and the registry holds at most one Managed
\* Process per engine.
C10_OneProcessPerEngine ==
    \A e \in Engines :
        /\ Cardinality({ pid \in PidsOf(e) : Outstanding(procs[pid]) }) <= 1
        /\ Cardinality({ pid \in PidsOf(e) : InRegistry(pid) }) <= 1

\* A resource-query callback for pid runs in this step.
CallbackStep(pid) == queries'[pid] < queries[pid]

\* The callback of this step reports an error for a process that still
\* exists: it appends no sample (a successful callback always appends one).
ErrorCallbackStep(pid) ==
    /\ CallbackStep(pid)
    /\ checkIfProcessExists(procs[pid].childProcess)
    /\ procs'[pid].cpuVals = procs[pid].cpuVals

\* The monitor's timer fires in this step.
TickStep == nextTickAt' # nextTickAt

\* The monitor force-killed this process on a query error and spliced it out
\* of the registry: only the query-error path kills without flagging.
RemovedByMonitor(process) ==
    process.childProcess.killed /\ ~process.isTimedOut

Without(P, pid) == SelectSeq(P, LAMBDA x : x # pid)

\* C11: every spawned child that is still running and that the monitor has
\* not force-killed has its Managed Process in the registry.
C11_NoLiveProcessUnmonitored ==
    \A pid \in Pids :
        ( procs[pid].childProcess.state = "running"
          /\ ~procs[pid].childProcess.killed )
        => InRegistry(pid)

\* C12: when a query callback reports an error for a process P that still
\* exists, the registry afterwards is the registry before without P's
\* entry (and unchanged when P has no entry any more, as for the second of
\* two such callbacks).
C12_QueryErrorRemovesOnlyOwnEntry ==
    [][ \A pid \in Pids :
          ErrorCallbackStep(pid) => PROCESSES' = Without(PROCESSES, pid) ]_vars

\* C13: the 'close' or 'error' event of a process that the monitor has
\* force-killed on a query error and removed from the registry removes no
\* Managed Process from the registry and appends no record.
C13_LateEventOfRemovedProcessIsNoOp ==
    [][ \A pid \in Pids :
          ( RemovedByMonitor(procs[pid])
            /\ ~InRegistry(pid)
            /\ Outstanding(procs[pid])
            /\ Terminated(procs'[pid]) )
          => /\ \A q \in Pids : InRegistry(q) => InRegistry(q)'
             /\ \A e \in Engines : Len(Records(e)') = Len(Records(e)) ]_vars

\* A monitor step: the timer fires, or a resource query calls back.
MonitorStep == TickStep \/ \E pid \in Pids : CallbackStep(pid)

\* C14: in one monitor tick, a live registered process whose elapsed time
\* has reached TIMEOUT is sent a kill signal and flagged and gets no query;
\* any other live registered process gets exactly one query and is neither
\* killed nor flagged by the tick.
C14_TickKillsOrQueries ==
    [][ TickStep =>
          \A pid \in Pids :
            ( InRegistry(pid) /\ procs[pid].childProcess.state = "running" )
            => IF now - procs[pid].startTime >= TIMEOUT
               THEN /\ procs'[pid].childProcess.killed
                    /\ procs'[pid].isTimedOut
                    /\ queries'[pid] = queries[pid]
               ELSE /\ queries'[pid] = queries[pid] + 1
                    /\ procs'[pid].childProcess.killed
                         = procs[pid].childProcess.killed
                    /\ procs'[pid].isTimedOut = procs[pid].isTimedOut ]_vars

\* A tick has killed and flagged one registered process and queried another.
C14_Witness ==
    \E p, q \in Pids :
        /\ p # q
        /\ InRegistry(p) /\ InRegistry(q)
        /\ procs[p].isTimedOut /\ procs[p].childProcess.killed
        /\ queries[p] = 0
        /\ ~procs[q].isTimedOut /\ queries[q] > 0

\* C15: a tick issues no query, sends no kill and sets no flag for a
\* registered process whose child no longer runs, and a query callback for
\* a process that no longer exists appends no sample, sends no kill and
\* leaves the registry unchanged.
C15_LivenessGuard ==
    [][ \A pid \in Pids :
          procs[pid].childProcess.state # "running"
          => /\ TickStep => /\ queries'[pid] = queries[pid]
                            /\ procs'[pid] = procs[pid]
             /\ CallbackStep(pid) => /\ procs' = procs
                                     /\ PROCESSES' = PROCESSES ]_vars

\* The last tick came at or after TIMEOUT for a registered process whose
\* child had ended: it is still unflagged, unkilled and without a query.
C15_Witness ==
    \E pid \in Pids :
        /\ InRegistry(pid)
        /\ procs[pid].childProcess.state = "exited"
        /\ nextTickAt > INTERVAL
        /\ nextTickAt - INTERVAL >= procs[pid].startTime + TIMEOUT
        /\ ~procs[pid].isTimedOut
        /\ ~procs[pid].childProcess.killed
        /\ queries[pid] = 0

ClosedCleanly(process) ==
    /\ process.childProcess.state = "closed"
    /\ process.childProcess.exitCode = "0"
    /\ process.childProcess.clean

\* C17: the records of a terminated process are in testsPassed with status
\* "success" if it closed with exit code 0 and a clean verdict on its own
\* handle, and in testsFailed in every other case.
C17_PassIffCleanExit ==
    \A pid \in Pids :
        Terminated(procs[pid]) =>
            LET e == procs[pid].engine
                script == procs[pid].script
            IN IF ClosedCleanly(procs[pid])
               THEN /\ Failed(e, script) = {}
                    /\ \A i \in Passed(e, script) :
                           engines[e].testsPassed[i].status = "success"
               ELSE Passed(e, script) = {}

\* C18: every queue advance of the completion handler takes the script at
\* the head of testsQueue, the earliest-enqueued remaining one.
C18_QueueAdvanceTakesHead ==
    [][ \A e \in Engines :
          ( Running /\ engines'[e].testsQueue # engines[e].testsQueue )
          => /\ engines'[e].testsQueue = Tail(engines[e].testsQueue)
             /\ procs'[Len(procs')].engine = e
             /\ procs'[Len(procs')].script = Head(engines[e].testsQueue) ]_vars

\* Every script of every engine has been spawned and has a record, and the
\* engine-completion callback has been invoked for every engine.
AllEnginesComplete ==
    \A e \in Engines :
        /\ engines[e].testsQueue = << >>
        /\ callbackCalls[e] >= 1
        /\ \A pid \in PidsOf(e) :
               Passed(e, procs[pid].script) \cup Failed(e, procs[pid].script)
                   # {}

\* C19: every engine eventually has all its scripts recorded and its
\* callback invoked; so the harness never comes to a stop (no event left to
\* deliver, no step left to take) before every engine is complete.
C19_NoStopBeforeComplete == AllEnginesComplete \/ ENABLED Next

\* C20: the registry holds exactly the spawned processes that are not yet
\* finalized and that the monitor has not removed: no entry of a finalized
\* process, an entry for every outstanding process the monitor has not
\* killed, and no entry at all once every engine's callback has fired.
C20_RegistryAccounting ==
    /\ \A pid \in Pids :
         /\ InRegistry(pid) => Outstanding(procs[pid])
         /\ ( Outstanding(procs[pid]) /\ ~procs[pid].childProcess.killed )
            => InRegistry(pid)
    /\ ( \A e \in Engines : callbackCalls[e] >= 1 ) => PROCESSES = << >>

====
